---- MODULE Spec2Model ----
(***************************************************************************)
(* Model of the Seer guidance controller: the useNavigationLoop hook       *)
(* (client/src/hooks/useNavigationLoop.ts) and its wiring in App.tsx and   *)
(* PressToTalk.tsx.                                                        *)
(*                                                                         *)
(* React semantics that the model keeps:                                   *)
(*  - the useState cells are the variables state, status, checkpoint,      *)
(*    lastInstruction, lastUrgency, isProcessing, language; a setter       *)
(*    writes the cell at once, but a callback only reads the values of     *)
(*    the render that created it (its closure);                            *)
(*  - rendered is the snapshot of the cells taken by the last render,     *)
(*    which follows every handler run; a callback invocation copies it     *)
(*    into its own record (field c) when it is created and reads state     *)
(*    only through c afterwards;                                           *)
(*  - the useRef cells recentInstructions and historySnippets are shared   *)
(*    and read/written directly;                                           *)
(*  - an async function runs atomically from one await to the next; each   *)
(*    action below is one such run;                                        *)
(*  - speaking counts the utterances that Speech.speak was given and that  *)
(*    have neither ended nor been dropped by Speech.stop;                  *)
(*  - order lists the handleVoiceInput and handleFrameCapture invocations  *)
(*    in flight in the order they passed their guards.                     *)
(*                                                                         *)
(* Strings are sequences of pieces.  A transcript is a sequence of single  *)
(* characters, so that toLowerCase, includes, split and trim are computed  *)
(* as the code computes them; a string literal of the source is one piece. *)
(***************************************************************************)
EXTENDS Naturals, Integers, Sequences, FiniteSets, Bags, TLC

VARIABLES
    state,               \* useState<NavigationState>
    status,              \* useState<StatusType>
    checkpoint,          \* useState<string | null>
    lastInstruction,     \* useState<string | null>
    lastUrgency,         \* useState<'normal' | 'warning'>
    isProcessing,        \* useState(false)
    language,            \* useState<Language>
    recentInstructions,  \* useRef<string[]>
    historySnippets,     \* useRef<string[]>
    rendered,            \* values seen by the callbacks of the last render
    procs,               \* bag of async invocations in flight
    ev,                  \* the last step taken and what it did (history variable)
    speaking,            \* utterances given to Speech.speak, neither finished nor stopped
    order                \* the cycles in flight, in the order they started (history variable)

vars == <<state, status, checkpoint, lastInstruction, lastUrgency, isProcessing,
          language, recentInstructions, historySnippets, rendered, procs, ev, speaking, order>>

cells == <<state, status, checkpoint, lastInstruction, lastUrgency, isProcessing, language>>
refs == <<recentInstructions, historySnippets>>

----------------------------------------------------------------------------
(* Bounds *)

\* historySnippets is unbounded in the code; no new invocation is accepted by
\* the model once the snippets already pushed plus those the invocations in
\* flight can still push would exceed this length.
MaxSnippets == 3

\* number of async invocations that may be in flight together
MaxProcs == 2

----------------------------------------------------------------------------
(* Strings *)

Null == <<"\\null">>

EmptyString == <<>>

\* JavaScript truthiness of a string | null
Truthy(s) == s # Null /\ s # EmptyString

\* `${x}` inside a template literal
Interp(s) == IF s = Null THEN <<"n", "u", "l", "l">> ELSE s

UpperLetters == <<"A", "B", "C", "D", "E", "F", "G", "H", "I", "J", "K", "L", "M",
                  "N", "O", "P", "Q", "R", "S", "T", "U", "V", "W", "X", "Y", "Z">>
LowerLetters == <<"a", "b", "c", "d", "e", "f", "g", "h", "i", "j", "k", "l", "m",
                  "n", "o", "p", "q", "r", "s", "t", "u", "v", "w", "x", "y", "z">>

LowerChar(ch) ==
    IF \E i \in DOMAIN UpperLetters : UpperLetters[i] = ch
    THEN LowerLetters[CHOOSE i \in DOMAIN UpperLetters : UpperLetters[i] = ch]
    ELSE ch

toLowerCase(s) == [i \in 1..Len(s) |-> LowerChar(s[i])]

\* first index i >= from (0-based) at which sub occurs in s, or -1
indexOf(s, sub, from) ==
    LET hits == {i \in from..(Len(s) - Len(sub)) : SubSeq(s, i + 1, i + Len(sub)) = sub}
    IN IF hits = {} THEN -1 ELSE CHOOSE i \in hits : \A j \in hits : i <= j

includes(s, sub) == indexOf(s, sub, 0) # -1

\* s.split(sep)[1], for a non-empty sep that occurs in s
splitSecond(s, sep) ==
    LET first == indexOf(s, sep, 0)
        begin == first + Len(sep)
        next == indexOf(s, sep, begin)
        end == IF next = -1 THEN Len(s) ELSE next
    IN SubSeq(s, begin + 1, end)

IsSpace(ch) == ch = " "

trim(s) ==
    LET keep == {i \in 1..Len(s) : ~IsSpace(s[i])}
    IN IF keep = {} THEN EmptyString
       ELSE SubSeq(s, CHOOSE i \in keep : \A j \in keep : i <= j,
                      CHOOSE i \in keep : \A j \in keep : i >= j)

KwStop == <<"s", "t", "o", "p">>
KwCancel == <<"c", "a", "n", "c", "e", "l">>
KwRepeat == <<"r", "e", "p", "e", "a", "t">>
KwNewCheckpoint == <<"n", "e", "w", " ", "c", "h", "e", "c", "k", "p", "o", "i", "n", "t">>
KwImHereApos == <<"i", "'", "m", " ", "h", "e", "r", "e">>
KwImHere == <<"i", "m", " ", "h", "e", "r", "e">>

MsgStopped == <<"Navigation stopped.">>
MsgNetworkError == <<"Network error. Please try again.">>
MsgNavigatingTo(x) == <<"Navigating to ">> \o Interp(x) \o <<".">>
MsgReached(x) == <<"You've reached ">> \o Interp(x) \o <<".">>
UserSnippet(t) == <<"user: ">> \o t
SeerSnippet(t) == <<"seer: ">> \o t

----------------------------------------------------------------------------
(* Types and inputs *)

NavigationState == {"SELECT_LANGUAGE", "ASK_GOAL", "NAVIGATING", "REACHED", "ASK_NEXT", "END"}

StatusType == {"idle", "listening", "navigating", "paused", "reached"}

LANGUAGES ==
    << [code |-> "en", whisperCode |-> "en", ttsVoice |-> "en-US"],
       [code |-> "es", whisperCode |-> "es", ttsVoice |-> "es-ES"] >>

DEFAULT_LANGUAGE == LANGUAGES[1]

\* transcripts returned by the transcription service
UtterDoor == <<"D", "o", "o", "r">>
UtterStop == <<"S", "t", "o", "p">>
UtterNewLift == <<"n", "e", "w", " ", "c", "h", "e", "c", "k", "p", "o", "i", "n", "t", " ", "l", "i", "f", "t">>
UtterImHere == <<"i", "m", " ", "h", "e", "r", "e">>
UtterLift == <<"L", "i", "f", "t">>

Utterances == {UtterDoor, UtterStop, UtterNewLift}

\* more transcripts: the empty one, each command keyword, mixed case, a
\* keyword with nothing or a blank after it, two keywords in one transcript
UtterEmpty == EmptyString
UtterCancel == <<"C", "a", "n", "c", "e", "l">>
UtterRepeat == <<"R", "e", "p", "e", "a", "t">>
UtterNew == <<"n", "e", "w", " ", "c", "h", "e", "c", "k", "p", "o", "i", "n", "t">>
UtterNewBlank == UtterNew \o <<" ">>
UtterNewBusStop == <<"N", "e", "w", " ", "C", "h", "e", "c", "k", "p", "o", "i", "n", "t">> \o <<" ", "b", "u", "s", " ", "s", "t", "o", "p">>
UtterImHereApos == <<"I", "'", "m", " ", "h", "e", "r", "e">>
UtterRepeatImHere == <<"r", "e", "p", "e", "a", "t", " ", "i", "m", " ", "h", "e", "r", "e">>
UtterNewLiftCaps == <<"n", "e", "w", " ", "c", "h", "e", "c", "k", "p", "o", "i", "n", "t", " ", "L", "i", "f", "t">>

Transcripts ==
    {UtterEmpty, UtterDoor, UtterStop, UtterCancel, UtterRepeat, UtterNew, UtterNewBlank,
     UtterNewLift, UtterNewLiftCaps, UtterNewBusStop, UtterImHere, UtterImHereApos, UtterRepeatImHere}

\* destinations passed to setCheckpoint
Destinations == {UtterDoor}

\* responses of the planning service (PlanResponseSchema)
PlanResults ==
    { [instruction |-> <<"Walk forward.">>, urgency |-> "normal", danger_level |-> "safe", reached |-> FALSE],
      [instruction |-> <<"Door ahead.">>, urgency |-> "warning", danger_level |-> "caution", reached |-> TRUE] }

----------------------------------------------------------------------------
(* Renders and closures *)

\* what the callbacks created by a render read.  handleVoiceInput and
\* handleFrameCapture are memoized on dependency lists that leave language
\* out, so each keeps the language of the render that last re-created it.
VoiceDeps(s) == <<s.state, s.checkpoint, s.lastInstruction, s.lastUrgency, s.isProcessing>>
FrameDeps(s) == <<s.state, s.checkpoint, s.isProcessing>>

\* React re-renders when the handler that wrote the cells returns: the
\* callbacks whose dependencies changed are re-created, the others are kept,
\* and the effect of App.tsx re-subscribes its interval with them.
Rerender ==
    LET now == [state |-> state', checkpoint |-> checkpoint', lastInstruction |-> lastInstruction',
                lastUrgency |-> lastUrgency', isProcessing |-> isProcessing',
                voiceLanguage |-> language', frameLanguage |-> language']
    IN rendered' = [now EXCEPT
           !.voiceLanguage = IF VoiceDeps(now) # VoiceDeps(rendered) THEN language' ELSE rendered.voiceLanguage,
           !.frameLanguage = IF FrameDeps(now) # FrameDeps(rendered) THEN language' ELSE rendered.frameLanguage]

\* an async invocation in flight
\*   pc     the await it is suspended at
\*   via    who started it: the press-to-talk button, the interval, or a direct call
\*   owner  the hook callback that is running: voice, frame, or none
\*   c      the closure of the callbacks it runs
\*   text, urgency   arguments of the playTTS call it is suspended in
\*   reached         planResult.reached, read after playTTS returns
\*   midCycle        handleVoiceInput was entered while a guidance cycle held
\*                   the processing flag (history, read by no action)
\* handleButtonPress captures a frame after handleVoiceInput returns
WillCapture(pr) == pr.via = "button" /\ pr.c.state = "NAVIGATING" /\ Truthy(pr.c.checkpoint)

\* The closure of an invocation keeps the values that the code it has yet to
\* run reads; the others are set to the values of the first render:
\*   handleVoiceInput reads isProcessing on entry, lastInstruction, lastUrgency
\*   and checkpoint in its branches, state in its branches and in finally;
\*   handleButtonPress reads state and checkpoint after handleVoiceInput;
\*   handleFrameCapture reads state, checkpoint, isProcessing on entry.
Live(pr) ==
    LET entering == pr.pc = "stopRecording"
        branching == pr.pc \in {"stopRecording", "postAudio"}
        inVoice == branching \/ (pr.pc = "playTTS" /\ pr.owner = "voice")
        capturing == pr.pc = "takePicture" \/ (inVoice /\ WillCapture(pr))
        planning == pr.pc = "postPlan"
    IN [state |-> inVoice \/ capturing,
        checkpoint |-> branching \/ capturing \/ planning,
        lastInstruction |-> branching,
        lastUrgency |-> branching,
        isProcessing |-> entering \/ capturing,
        voiceLanguage |-> entering,
        frameLanguage |-> capturing]

FirstRender ==
    [state |-> "SELECT_LANGUAGE", checkpoint |-> Null, lastInstruction |-> Null,
     lastUrgency |-> "normal", isProcessing |-> FALSE,
     voiceLanguage |-> DEFAULT_LANGUAGE, frameLanguage |-> DEFAULT_LANGUAGE]

Proc(pc, via, owner, c, text, urgency, reached, midCycle) ==
    LET pr == [pc |-> pc, via |-> via, owner |-> owner, c |-> c, text |-> text,
               urgency |-> urgency, reached |-> reached,
               midCycle |-> midCycle /\ owner = "voice"]
    IN [pr EXCEPT !.c = [f \in DOMAIN FirstRender |-> IF Live(pr)[f] THEN c[f] ELSE FirstRender[f]]]

Running == BagToSet(procs)

RECURSIVE CountIn(_, _)
CountIn(S, owner) ==
    IF S = {} THEN 0
    ELSE LET pr == CHOOSE x \in S : TRUE
         IN (IF pr.owner = owner THEN CopiesIn(pr, procs) ELSE 0) + CountIn(S \ {pr}, owner)

\* handleFrameCapture invocations between setIsProcessing(true) and finally
GuidanceCycles == CountIn(Running, "frame")
\* handleVoiceInput invocations between setIsProcessing(true) and finally
VoiceCycles == CountIn(Running, "voice")

Remove(pr) == procs (-) SetToBag({pr})
Replace(pr, new) == (procs (-) SetToBag({pr})) (+) SetToBag({new})

\* snippets an invocation will push to historySnippets if nothing fails: the
\* transcript and the reply of a voice command, the text of a playTTS call
Pending(pr) ==
    CASE pr.pc \in {"stopRecording", "postAudio"} -> 2
      [] pr.pc = "playTTS" -> 1
      [] OTHER -> 0

RECURSIVE SumPending(_)
SumPending(S) ==
    IF S = {} THEN 0
    ELSE LET pr == CHOOSE x \in S : TRUE
         IN CopiesIn(pr, procs) * Pending(pr) + SumPending(S \ {pr})

CanStart(pr) ==
    /\ BagCardinality(procs) < MaxProcs
    /\ ev.pushes + SumPending(Running) + Pending(pr) <= MaxSnippets

\* the history has room for the instruction of one more planning result
CanSpeakPlan == ev.pushes + SumPending(Running) < MaxSnippets

\* op: the step; arg: its string argument; haptics: the Haptics calls it made, in
\* order; spoke: the text it passed to Speech.speak, or Null
\* midCycle: the step ran a voice command accepted while a guidance cycle was
\* in flight; threw: the callback's promise was rejected; pushes: the number
\* of snippets pushed to historySnippets since the start; lang: the language
\* code or voice the step passed to the service it called
Ev(op, arg, haptics, spoke) ==
    [op |-> op, arg |-> arg, haptics |-> haptics, spoke |-> spoke, midCycle |-> FALSE, threw |-> FALSE,
     pushes |-> ev.pushes, lang |-> Null]

Pushed(e) == [e EXCEPT !.pushes = @ + 1]

WithLang(e, l) == [e EXCEPT !.lang = l]

\* order has one entry for each handleVoiceInput or handleFrameCapture
\* invocation past its guard, oldest first: pr is the invocation as it is in
\* procs, late says that a cycle started after it has already spoken,
\* commits counts the steps of the invocation that changed state, changes
\* says that state has changed, by any step, since the invocation started,
\* haptics lists the Haptics calls the invocation has made so far.
Without(seq, i) == SubSeq(seq, 1, i - 1) \o SubSeq(seq, i + 1, Len(seq))

Overtake(seq, i) == [j \in 1..Len(seq) |-> IF j < i THEN [seq[j] EXCEPT !.late = TRUE] ELSE seq[j]]

\* 1 if the step that is being taken changes state, else 0
Changed == IF state' # state THEN 1 ELSE 0

\* the cycles in flight see the step that is being taken change state
Seen(seq) == [j \in 1..Len(seq) |-> [seq[j] EXCEPT !.changes = @ \/ state' # state]]

\* the step that is being taken started, continued or ended a cycle; it
\* comes after the step has written ev
Reorder ==
    LET gone == {q \in BagToSet(procs) : q.owner # "none" /\ CopiesIn(q, procs) > CopiesIn(q, procs')}
        added == {q \in BagToSet(procs') : q.owner # "none" /\ CopiesIn(q, procs') > CopiesIn(q, procs)}
    IN IF gone = {}
       THEN IF added = {}
            THEN order' = Seen(order)
            ELSE order' = Append(Seen(order), [pr |-> CHOOSE q \in added : TRUE, late |-> FALSE,
                                         commits |-> Changed, changes |-> FALSE,
                                         haptics |-> ev'.haptics])
       ELSE \E i \in 1..Len(order) :
                /\ order[i].pr \in gone
                /\ IF added = {}
                   THEN order' = Seen(Without(IF ev'.op = "spoken" THEN Overtake(order, i) ELSE order, i))
                   ELSE order' = [Seen(order) EXCEPT ![i].pr = CHOOSE q \in added : TRUE,
                                                ![i].commits = @ + Changed,
                                                ![i].haptics = @ \o ev'.haptics]

----------------------------------------------------------------------------
(* Initial state: the first render of useNavigationLoop *)

Init ==
    /\ state = "SELECT_LANGUAGE"
    /\ status = "idle"
    /\ checkpoint = Null
    /\ lastInstruction = Null
    /\ lastUrgency = "normal"
    /\ isProcessing = FALSE
    /\ language = DEFAULT_LANGUAGE
    /\ recentInstructions = <<>>
    /\ historySnippets = <<>>
    /\ rendered = FirstRender
    /\ procs = EmptyBag
    /\ ev = [op |-> "init", arg |-> Null, haptics |-> <<>>, spoke |-> Null, midCycle |-> FALSE,
              threw |-> FALSE, pushes |-> 0, lang |-> Null]
    /\ speaking = 0
    /\ order = <<>>

----------------------------------------------------------------------------
(* playTTS *)

\* recentInstructions.current.push(text); if (length > 5) shift()
MaxRecent == 5

\* the full list dropping the text just pushed instead of the oldest
PushRecentKeepsOldest(list, text) ==
    LET pushed == Append(list, text)
    IN IF Len(pushed) > MaxRecent THEN SubSeq(pushed, 1, MaxRecent) ELSE pushed

PushRecent(list, text) ==
    LET pushed == Append(list, text)
    IN IF Len(pushed) > MaxRecent THEN Tail(pushed) ELSE pushed

\* Speech.stop(): the utterance being spoken and those waiting are dropped
SpeechStop == speaking' = 0

\* Speech.speak(text, ...): one more utterance for the synthesizer
SpeechSpeak == speaking' = speaking + 1

UrgencyHaptic(urgency) == IF urgency = "warning" THEN "notification.Warning" ELSE "impact.Light"

----------------------------------------------------------------------------
(* Synchronous operations of the hook *)

\* the language screen confirming the choice aloud, as setCheckpoint confirms
setLanguageAnnounces(selectedLanguage) ==
    LET tts == Proc("playTTS", "direct", "none", rendered, <<"Language set.">>, "normal", FALSE, FALSE)
    IN /\ CanStart(tts)
       /\ language' = selectedLanguage
       /\ state' = "ASK_GOAL"
       /\ procs' = procs (+) SetToBag({tts})
       /\ ev' = Ev("setLanguage", Null, <<>>, Null)
       /\ UNCHANGED <<status, checkpoint, lastInstruction, lastUrgency, isProcessing, refs>>
       /\ SpeechStop
       /\ Reorder
       /\ Rerender

setLanguage(selectedLanguage) ==
    /\ language' = selectedLanguage
    /\ state' = "ASK_GOAL"
    /\ ev' = Ev("setLanguage", Null, <<>>, Null)
    /\ UNCHANGED <<status, checkpoint, lastInstruction, lastUrgency, isProcessing, refs, procs>>
    /\ UNCHANGED speaking
    /\ Reorder
    /\ Rerender

\* playTTS is called and not awaited: it runs on as an invocation of its own
setCheckpoint(newCheckpoint) ==
    LET tts == Proc("playTTS", "direct", "none", rendered, MsgNavigatingTo(newCheckpoint), "normal", FALSE, FALSE)
    IN /\ CanStart(tts)
       /\ checkpoint' = newCheckpoint
       /\ state' = "NAVIGATING"
       /\ status' = "navigating"
       /\ procs' = procs (+) SetToBag({tts})
       /\ ev' = Ev("setCheckpoint", newCheckpoint, <<>>, Null)
       /\ UNCHANGED <<lastInstruction, lastUrgency, isProcessing, language, refs>>
       /\ SpeechStop
       /\ Reorder
       /\ Rerender

resetNavigation ==
    /\ state' = "ASK_GOAL"
    /\ status' = "idle"
    /\ checkpoint' = Null
    /\ lastInstruction' = Null
    /\ recentInstructions' = <<>>
    /\ historySnippets' = <<>>
    /\ ev' = Ev("resetNavigation", Null, <<>>, Null)
    /\ UNCHANGED <<lastUrgency, isProcessing, language, procs>>
    /\ UNCHANGED speaking
    /\ Reorder
    /\ Rerender

----------------------------------------------------------------------------
(* handleVoiceInput *)

NoText == EmptyString

\* the command keywords looked for in REACHED as they are in NAVIGATING
VoiceBranchCommandsInReached(c, transcript) ==
    LET lowerTranscript == toLowerCase(transcript)
    IN IF c.state = "ASK_GOAL" \/ c.state = "ASK_NEXT" THEN "goal"
       ELSE IF c.state \in {"NAVIGATING", "REACHED"} THEN
            IF includes(lowerTranscript, KwStop) \/ includes(lowerTranscript, KwCancel) THEN "stop"
            ELSE IF includes(lowerTranscript, KwRepeat) THEN "repeat"
            ELSE IF includes(lowerTranscript, KwNewCheckpoint) THEN "newCheckpoint"
            ELSE IF includes(lowerTranscript, KwImHereApos) \/ includes(lowerTranscript, KwImHere) THEN "imHere"
            ELSE IF c.state = "REACHED" THEN "next"
            ELSE "none"
       ELSE "none"

\* the test for 'new checkpoint' made before the test for 'stop' and 'cancel'
VoiceBranchCheckpointFirst(c, transcript) ==
    LET lowerTranscript == toLowerCase(transcript)
    IN IF c.state = "ASK_GOAL" \/ c.state = "ASK_NEXT" THEN "goal"
       ELSE IF c.state = "NAVIGATING" THEN
            IF includes(lowerTranscript, KwNewCheckpoint) THEN "newCheckpoint"
            ELSE IF includes(lowerTranscript, KwStop) \/ includes(lowerTranscript, KwCancel) THEN "stop"
            ELSE IF includes(lowerTranscript, KwRepeat) THEN "repeat"
            ELSE IF includes(lowerTranscript, KwImHereApos) \/ includes(lowerTranscript, KwImHere) THEN "imHere"
            ELSE "none"
       ELSE IF c.state = "REACHED" THEN "next"
       ELSE "none"

\* a transcript with no keyword taken in NAVIGATING as it is in REACHED
VoiceBranchPlainIsGoal(c, transcript) ==
    LET lowerTranscript == toLowerCase(transcript)
    IN IF c.state = "ASK_GOAL" \/ c.state = "ASK_NEXT" THEN "goal"
       ELSE IF c.state = "NAVIGATING" THEN
            IF includes(lowerTranscript, KwStop) \/ includes(lowerTranscript, KwCancel) THEN "stop"
            ELSE IF includes(lowerTranscript, KwRepeat) THEN "repeat"
            ELSE IF includes(lowerTranscript, KwNewCheckpoint) THEN "newCheckpoint"
            ELSE IF includes(lowerTranscript, KwImHereApos) \/ includes(lowerTranscript, KwImHere) THEN "imHere"
            ELSE "next"
       ELSE IF c.state = "REACHED" THEN "next"
       ELSE "none"

\* the branch of handleVoiceInput taken for a transcript, read from the closure
VoiceBranch(c, transcript) ==
    LET lowerTranscript == toLowerCase(transcript)
    IN IF c.state = "ASK_GOAL" \/ c.state = "ASK_NEXT" THEN "goal"
       ELSE IF c.state = "NAVIGATING" THEN
            IF includes(lowerTranscript, KwStop) \/ includes(lowerTranscript, KwCancel) THEN "stop"
            ELSE IF includes(lowerTranscript, KwRepeat) THEN "repeat"
            ELSE IF includes(lowerTranscript, KwNewCheckpoint) THEN "newCheckpoint"
            ELSE IF includes(lowerTranscript, KwImHereApos) \/ includes(lowerTranscript, KwImHere) THEN "imHere"
            ELSE "none"
       ELSE IF c.state = "REACHED" THEN "next"
       ELSE "none"

\* parts[1].trim() of lowerTranscript.split('new checkpoint')
NewCheckpointOf(transcript) == trim(splitSecond(toLowerCase(transcript), KwNewCheckpoint))

\* the test of lastInstruction left out of the repeat branch
VoiceSpeaksRepeatUnguarded(c, branch) ==
    branch \in {"stop", "newCheckpoint", "imHere", "next", "repeat"}

\* whether the branch calls playTTS, and with what
VoiceSpeaks(c, branch) ==
    \/ branch \in {"stop", "newCheckpoint", "imHere", "next"}
    \/ branch = "repeat" /\ Truthy(c.lastInstruction)

VoiceText(c, transcript, branch) ==
    CASE branch = "stop" -> MsgStopped
      [] branch = "repeat" -> c.lastInstruction
      [] branch = "newCheckpoint" -> MsgNavigatingTo(NewCheckpointOf(transcript))
      [] branch = "imHere" -> MsgReached(c.checkpoint)
      [] branch = "next" -> MsgNavigatingTo(transcript)
      [] OTHER -> NoText

\* finally { setIsProcessing(false); setStatus(state === 'NAVIGATING' ? ...) }
FinallyStatus(c) == IF c.state = "NAVIGATING" THEN "navigating" ELSE "idle"

\* back in handleButtonPress after `await handleVoiceInput`, or done
AfterVoice(pr) ==
    IF WillCapture(pr)
    THEN Replace(pr, Proc("takePicture", pr.via, "none", pr.c, NoText, "normal", FALSE, FALSE))
    ELSE Remove(pr)

\* PressToTalk: onPressOut runs stopRecording of the last render, unless the
\* button was rendered disabled; stopRecording awaits before onTranscript(uri)
PressOut ==
    LET pr == Proc("stopRecording", "button", "none", rendered, NoText, "normal", FALSE, FALSE)
    IN /\ ~rendered.isProcessing
       /\ CanStart(pr)
       /\ procs' = procs (+) SetToBag({pr})
       /\ ev' = Ev("pressOut", Null, <<"impact.Medium">>, Null)
       /\ UNCHANGED <<cells, refs>>
       /\ UNCHANGED speaking
       /\ Reorder
       /\ Rerender

\* stopRecording throws or the recording has no uri: onTranscript is not called
RecordingLost(pr) ==
    /\ pr.pc = "stopRecording"
    /\ procs' = Remove(pr)
    /\ ev' = Ev("recordingLost", Null, <<>>, Null)
    /\ UNCHANGED <<cells, refs>>
    /\ UNCHANGED speaking
    /\ Reorder
    /\ Rerender

\* handleButtonPress(uri) -> handleVoiceInput(uri), up to `await postAudio`
ButtonVoice(pr) ==
    /\ pr.pc = "stopRecording"
    /\ IF pr.c.isProcessing
       THEN /\ procs' = AfterVoice(pr)
            /\ ev' = Ev("voiceDropped", Null, <<>>, Null)
            /\ UNCHANGED <<isProcessing, status>>
       ELSE /\ isProcessing' = TRUE
            /\ status' = "listening"
            /\ procs' = Replace(pr, Proc("postAudio", pr.via, "voice", pr.c, NoText, "normal", FALSE,
                                             isProcessing /\ GuidanceCycles >= 1))
            /\ ev' = WithLang(Ev("postAudio", Null, <<>>, Null), pr.c.voiceLanguage.whisperCode)
    /\ UNCHANGED <<state, checkpoint, lastInstruction, lastUrgency, language, refs>>
    /\ UNCHANGED speaking
    /\ Reorder
    /\ Rerender

\* handleVoiceInput called with the callback of the last render
CallVoice ==
    LET pr == Proc("postAudio", "direct", "voice", rendered, NoText, "normal", FALSE,
                   isProcessing /\ GuidanceCycles >= 1)
    IN /\ IF rendered.isProcessing
          THEN /\ ev' = Ev("voiceDropped", Null, <<>>, Null)
               /\ UNCHANGED <<cells, refs, procs>>
          ELSE /\ CanStart(pr)
               /\ isProcessing' = TRUE
               /\ status' = "listening"
               /\ procs' = procs (+) SetToBag({pr})
               /\ ev' = WithLang(Ev("postAudio", Null, <<>>, Null), rendered.voiceLanguage.whisperCode)
               /\ UNCHANGED <<state, checkpoint, lastInstruction, lastUrgency, language, refs>>
       /\ UNCHANGED speaking
       /\ Reorder
       /\ Rerender

\* postAudio resolved: the try block up to its first await, or through finally
VoiceTranscribed(pr, transcript) ==
    LET c == pr.c
        branch == VoiceBranch(c, transcript)
        speaks == VoiceSpeaks(c, branch)
    IN /\ pr.pc = "postAudio"
       /\ historySnippets' = Append(historySnippets, UserSnippet(transcript))
       /\ state' = CASE branch \in {"goal", "next"} -> "NAVIGATING"
                     [] branch = "stop" -> "ASK_GOAL"
                     [] branch = "imHere" -> "REACHED"
                     [] OTHER -> state
       /\ checkpoint' = CASE branch \in {"goal", "next"} -> transcript
                          [] branch = "stop" -> Null
                          [] branch = "newCheckpoint" -> NewCheckpointOf(transcript)
                          [] OTHER -> checkpoint
       /\ IF speaks
          THEN /\ status' = CASE branch = "stop" -> "idle"
                              [] branch = "imHere" -> "reached"
                              [] branch = "next" -> "navigating"
                              [] OTHER -> status
               /\ procs' = Replace(pr, Proc("playTTS", pr.via, "voice", c, VoiceText(c, transcript, branch),
                                             IF branch = "repeat" THEN c.lastUrgency ELSE "normal", FALSE,
                                             pr.midCycle))
               /\ UNCHANGED isProcessing
          ELSE /\ status' = FinallyStatus(c)
               /\ isProcessing' = FALSE
               /\ procs' = AfterVoice(pr)
       /\ ev' = [Pushed(Ev(branch, transcript, IF branch = "imHere" THEN <<"notification.Success">> ELSE <<>>, Null))
                    EXCEPT !.midCycle = pr.midCycle]
       /\ UNCHANGED <<lastInstruction, lastUrgency, language, recentInstructions>>
       /\ IF speaks THEN SpeechStop ELSE UNCHANGED speaking
       /\ Reorder
       /\ Rerender

\* the catch block only logging, as the catch of handleFrameCapture does
VoiceFailedSilent(pr) ==
    /\ pr.pc = "postAudio"
    /\ isProcessing' = FALSE
    /\ status' = FinallyStatus(pr.c)
    /\ procs' = AfterVoice(pr)
    /\ ev' = Ev("voiceFailed", Null, <<>>, Null)
    /\ UNCHANGED <<state, checkpoint, lastInstruction, lastUrgency, language, refs>>
    /\ UNCHANGED speaking
    /\ Reorder
    /\ Rerender

\* postAudio rejected: catch { await playTTS('Network error...', 'warning') }
VoiceFailed(pr) ==
    /\ pr.pc = "postAudio"
    /\ procs' = Replace(pr, Proc("playTTS", pr.via, "voice", pr.c, MsgNetworkError, "warning", FALSE, pr.midCycle))
    /\ ev' = Ev("voiceFailed", Null, <<>>, Null)
    /\ UNCHANGED <<cells, refs>>
    /\ SpeechStop
    /\ Reorder
    /\ Rerender

----------------------------------------------------------------------------
(* handleFrameCapture *)

\* if (state !== 'NAVIGATING' || !checkpoint || isProcessing) return;
FrameGuard(c) == c.state = "NAVIGATING" /\ Truthy(c.checkpoint) /\ ~c.isProcessing

\* the useEffect of App.tsx keeps an interval while the rendered state is
\* NAVIGATING with a checkpoint
IntervalActive == rendered.state = "NAVIGATING" /\ Truthy(rendered.checkpoint)

\* a tick of the interval: if (cameraRef.current && !isProcessing) takePictureAsync
IntervalTick ==
    LET pr == Proc("takePicture", "tick", "none", rendered, NoText, "normal", FALSE, FALSE)
    IN /\ IntervalActive
       /\ IF rendered.isProcessing
          THEN /\ ev' = Ev("tickSkipped", Null, <<>>, Null)
               /\ UNCHANGED procs
          ELSE /\ CanStart(pr)
               /\ procs' = procs (+) SetToBag({pr})
               /\ ev' = Ev("tick", Null, <<>>, Null)
       /\ UNCHANGED <<cells, refs>>
       /\ UNCHANGED speaking
       /\ Reorder
       /\ Rerender

\* takePictureAsync throws or returns no uri: handleFrameCapture is not called
PictureLost(pr) ==
    /\ pr.pc = "takePicture"
    /\ procs' = Remove(pr)
    /\ ev' = Ev("pictureLost", Null, <<>>, Null)
    /\ UNCHANGED <<cells, refs>>
    /\ UNCHANGED speaking
    /\ Reorder
    /\ Rerender

\* takePictureAsync resolved: handleFrameCapture(photo.uri), up to `await postPlan`
PictureTaken(pr) ==
    /\ pr.pc = "takePicture"
    /\ IF FrameGuard(pr.c)
       THEN /\ isProcessing' = TRUE
            /\ procs' = Replace(pr, Proc("postPlan", pr.via, "frame", pr.c, NoText, "normal", FALSE, FALSE))
            /\ ev' = WithLang(Ev("postPlan", pr.c.checkpoint, <<>>, Null), pr.c.frameLanguage.whisperCode)
       ELSE /\ procs' = Remove(pr)
            /\ ev' = Ev("frameSkipped", pr.c.checkpoint, <<>>, Null)
            /\ UNCHANGED isProcessing
    /\ UNCHANGED <<state, status, checkpoint, lastInstruction, lastUrgency, language, refs>>
    /\ UNCHANGED speaking
    /\ Reorder
    /\ Rerender

\* handleFrameCapture called with the callback of the last render
CallFrame ==
    LET pr == Proc("postPlan", "direct", "frame", rendered, NoText, "normal", FALSE, FALSE)
    IN /\ IF FrameGuard(rendered)
          THEN /\ CanStart(pr)
               /\ isProcessing' = TRUE
               /\ procs' = procs (+) SetToBag({pr})
               /\ ev' = WithLang(Ev("postPlan", rendered.checkpoint, <<>>, Null), rendered.frameLanguage.whisperCode)
               /\ UNCHANGED <<state, status, checkpoint, lastInstruction, lastUrgency, language, refs>>
          ELSE /\ ev' = Ev("frameSkipped", rendered.checkpoint, <<>>, Null)
               /\ UNCHANGED <<cells, refs, procs>>
       /\ UNCHANGED speaking
       /\ Reorder
       /\ Rerender

\* every danger level answered with the light tick
DangerHapticAlwaysLight(danger_level) == <<"impact.Light">>

DangerHaptic(danger_level) ==
    CASE danger_level = "danger" -> <<"notification.Error">>
      [] danger_level = "caution" -> <<"notification.Warning">>
      [] danger_level = "safe" -> <<"impact.Light">>
      [] OTHER -> <<>>

\* postPlan resolved: haptic by danger level, then `await playTTS(...)`
PlanResolved(pr, planResult) ==
    /\ pr.pc = "postPlan"
    /\ CanSpeakPlan
    /\ procs' = Replace(pr, Proc("playTTS", pr.via, "frame", pr.c, planResult.instruction,
                                  planResult.urgency, planResult.reached, FALSE))
    /\ ev' = Ev("planResolved", pr.c.checkpoint, DangerHaptic(planResult.danger_level), Null)
    /\ UNCHANGED <<cells, refs>>
    /\ SpeechStop
    /\ Reorder
    /\ Rerender

\* the catch block speaking the warning that the catch of handleVoiceInput speaks
PlanRejectedSpeaks(pr) ==
    /\ pr.pc = "postPlan"
    /\ procs' = Replace(pr, Proc("playTTS", pr.via, "frame", pr.c, MsgNetworkError, "warning", FALSE, FALSE))
    /\ ev' = Ev("planRejected", Null, <<>>, Null)
    /\ UNCHANGED <<cells, refs>>
    /\ SpeechStop
    /\ Reorder
    /\ Rerender

\* the flag reset missing from the failure path
PlanRejectedKeepsFlag(pr) ==
    /\ pr.pc = "postPlan"
    /\ procs' = Remove(pr)
    /\ ev' = Ev("planRejected", Null, <<>>, Null)
    /\ UNCHANGED <<cells, refs>>
    /\ UNCHANGED speaking
    /\ Reorder
    /\ Rerender

\* the failure ending guidance as the stop command does
PlanRejectedEndsGuidance(pr) ==
    /\ pr.pc = "postPlan"
    /\ isProcessing' = FALSE
    /\ state' = "ASK_GOAL"
    /\ status' = "idle"
    /\ checkpoint' = Null
    /\ procs' = Remove(pr)
    /\ ev' = Ev("planRejected", Null, <<>>, Null)
    /\ UNCHANGED <<lastInstruction, lastUrgency, language, refs>>
    /\ UNCHANGED speaking
    /\ Reorder
    /\ Rerender

\* postPlan rejected: catch { console.error } finally { setIsProcessing(false) }
PlanRejected(pr) ==
    /\ pr.pc = "postPlan"
    /\ isProcessing' = FALSE
    /\ procs' = Remove(pr)
    /\ ev' = Ev("planRejected", Null, <<>>, Null)
    /\ UNCHANGED <<state, status, checkpoint, lastInstruction, lastUrgency, language, refs>>
    /\ UNCHANGED speaking
    /\ Reorder
    /\ Rerender

----------------------------------------------------------------------------
(* playTTS resumes, and its caller after it *)

\* the reached branch of handleFrameCapture left out
AfterTTSNeverReached(pr) ==
    /\ state' = state
    /\ status' = IF pr.owner = "voice" THEN FinallyStatus(pr.c) ELSE status
    /\ isProcessing' = IF pr.owner \in {"voice", "frame"} THEN FALSE ELSE isProcessing
    /\ procs' = IF pr.owner = "voice" THEN AfterVoice(pr) ELSE Remove(pr)

\* handleVoiceInput going back to ASK_NEXT once its reply was spoken
AfterTTSVoiceAsksNext(pr) ==
    /\ state' = CASE pr.owner = "frame" /\ pr.reached -> "REACHED"
                  [] pr.owner = "voice" -> "ASK_NEXT"
                  [] OTHER -> state
    /\ status' = CASE pr.owner = "frame" /\ pr.reached -> "reached"
                   [] pr.owner = "voice" -> FinallyStatus(pr.c)
                   [] OTHER -> status
    /\ isProcessing' = IF pr.owner \in {"voice", "frame"} THEN FALSE ELSE isProcessing
    /\ procs' = IF pr.owner = "voice" THEN AfterVoice(pr) ELSE Remove(pr)

\* the reached branch of handleFrameCapture asking for the next destination
AfterTTSReachedAsksNext(pr) ==
    /\ state' = IF pr.owner = "frame" /\ pr.reached THEN "ASK_NEXT" ELSE state
    /\ status' = CASE pr.owner = "frame" /\ pr.reached -> "reached"
                   [] pr.owner = "voice" -> FinallyStatus(pr.c)
                   [] OTHER -> status
    /\ isProcessing' = IF pr.owner \in {"voice", "frame"} THEN FALSE ELSE isProcessing
    /\ procs' = IF pr.owner = "voice" THEN AfterVoice(pr) ELSE Remove(pr)

\* what the caller does once `await playTTS` returns
AfterTTS(pr) ==
    /\ state' = IF pr.owner = "frame" /\ pr.reached THEN "REACHED" ELSE state
    /\ status' = CASE pr.owner = "frame" /\ pr.reached -> "reached"
                   [] pr.owner = "voice" -> FinallyStatus(pr.c)
                   [] OTHER -> status
    /\ isProcessing' = IF pr.owner \in {"voice", "frame"} THEN FALSE ELSE isProcessing
    /\ procs' = IF pr.owner = "voice" THEN AfterVoice(pr) ELSE Remove(pr)

ReachedHaptic(pr) == IF pr.owner = "frame" /\ pr.reached THEN <<"notification.Success">> ELSE <<>>

\* playTTS is memoized with an empty dependency list: it is the callback of
\* the first render for good and reads the language of that render
SpeechLanguage == FirstRender.voiceLanguage

\* the audio mode is set and the delay is over: Speech.speak and the bookkeeping
TTSSpoken(pr) ==
    /\ pr.pc = "playTTS"
    /\ lastInstruction' = pr.text
    /\ lastUrgency' = pr.urgency
    /\ recentInstructions' = PushRecent(recentInstructions, pr.text)
    /\ historySnippets' = Append(historySnippets, SeerSnippet(pr.text))
    /\ AfterTTS(pr)
    /\ ev' = WithLang(Pushed(Ev("spoken", pr.text, <<UrgencyHaptic(pr.urgency)>> \o ReachedHaptic(pr), pr.text)),
                      SpeechLanguage.ttsVoice)
    /\ UNCHANGED <<checkpoint, language>>
    /\ SpeechSpeak
    /\ Reorder
    /\ Rerender

\* the error leaving playTTS and ending the caller before its finally block
TTSFailedPropagates(pr) ==
    /\ pr.pc = "playTTS"
    /\ procs' = Remove(pr)
    /\ ev' = [Ev("ttsFailed", pr.text, <<>>, Null) EXCEPT !.threw = TRUE]
    /\ UNCHANGED <<cells, refs>>
    /\ UNCHANGED speaking
    /\ Reorder
    /\ Rerender

\* catch (error): setLastInstruction(text); setLastUrgency(urgency)
TTSFailed(pr) ==
    /\ pr.pc = "playTTS"
    /\ lastInstruction' = pr.text
    /\ lastUrgency' = pr.urgency
    /\ AfterTTS(pr)
    /\ ev' = Ev("ttsFailed", pr.text, ReachedHaptic(pr), Null)
    /\ UNCHANGED <<checkpoint, language, refs>>
    /\ UNCHANGED speaking
    /\ Reorder
    /\ Rerender

\* the synthesizer comes to the end of an utterance
SpeechDone ==
    /\ speaking > 0
    /\ speaking' = speaking - 1
    /\ ev' = Ev("speechDone", Null, <<>>, Null)
    /\ UNCHANGED <<cells, refs, procs>>
    /\ Reorder
    /\ Rerender

----------------------------------------------------------------------------
(* Specifications *)

\* the language the user picks in LanguageSelector
Selectable == {LANGUAGES[2]}

Next ==
    \/ \E l \in Selectable : setLanguage(l)
    \/ \E d \in Destinations : setCheckpoint(d)
    \/ resetNavigation
    \/ PressOut
    \/ CallVoice
    \/ IntervalTick
    \/ CallFrame
    \/ \E pr \in Running : RecordingLost(pr)
    \/ \E pr \in Running : ButtonVoice(pr)
    \/ \E pr \in Running, t \in Utterances : VoiceTranscribed(pr, t)
    \/ \E pr \in Running : VoiceFailed(pr)
    \/ \E pr \in Running : PictureLost(pr)
    \/ \E pr \in Running : PictureTaken(pr)
    \/ \E pr \in Running, r \in PlanResults : PlanResolved(pr, r)
    \/ \E pr \in Running : PlanRejected(pr)
    \/ \E pr \in Running : TTSSpoken(pr)

Spec == Init /\ [][Next]_vars

\* Every external call eventually returns or fails, the speech capability
\* may fail too, and React eventually re-renders.  The user sets a
\* destination and presses to talk; the interval ticks.
LiveUtterances == {UtterDoor, UtterStop}

NextLive ==
    \/ \E d \in Destinations : setCheckpoint(d)
    \/ PressOut
    \/ IntervalTick
    \/ \E pr \in Running : ButtonVoice(pr)
    \/ \E pr \in Running, t \in LiveUtterances : VoiceTranscribed(pr, t)
    \/ \E pr \in Running : VoiceFailed(pr)
    \/ \E pr \in Running : PictureTaken(pr)
    \/ \E pr \in Running, r \in PlanResults : PlanResolved(pr, r)
    \/ \E pr \in Running : PlanRejected(pr)
    \/ \E pr \in Running : TTSSpoken(pr)
    \/ \E pr \in Running : TTSFailed(pr)

AudioSettles == \E pr \in Running : VoiceFailed(pr) \/ \E t \in LiveUtterances : VoiceTranscribed(pr, t)
PlanSettles == \E pr \in Running : PlanRejected(pr) \/ \E r \in PlanResults : PlanResolved(pr, r)
SpeechSettles == \E pr \in Running : pr.owner # "none" /\ (TTSSpoken(pr) \/ TTSFailed(pr))

SpecLive ==
    /\ Init
    /\ [][NextLive]_vars
    /\ WF_vars(AudioSettles)
    /\ WF_vars(PlanSettles)
    /\ WF_vars(SpeechSettles)

\* The press-to-talk path alone, with every transcript of Transcripts: the
\* user picks a language on the language screen, sets a destination and
\* talks; the camera gives no picture; speech may fail.
NextVoice ==
    \/ state = "SELECT_LANGUAGE" /\ \E l \in Selectable : setLanguage(l)
    \/ \E d \in Destinations : setCheckpoint(d)
    \/ PressOut
    \/ \E pr \in Running : ButtonVoice(pr)
    \/ \E pr \in Running, t \in Transcripts : VoiceTranscribed(pr, t)
    \/ \E pr \in Running : VoiceFailed(pr)
    \/ \E pr \in Running : PictureLost(pr)
    \/ \E pr \in Running : TTSSpoken(pr)
    \/ \E pr \in Running : TTSFailed(pr)

SpecVoice == Init /\ [][NextVoice]_vars

\* Speaking on: the session so far was a sequence of at most MaxRecent
\* destinations set with setCheckpoint, each announcement spoken; from there
\* more destinations are set and guidance cycles run.
RecentDestinations == {UtterDoor, UtterLift}

SpokenBefore == UNION {[1..n -> RecentDestinations] : n \in 1..MaxRecent}

RECURSIVE PushAll(_, _)
PushAll(list, texts) ==
    IF texts = <<>> THEN list ELSE PushAll(PushRecent(list, Head(texts)), Tail(texts))

InitRecent ==
    \E ds \in SpokenBefore :
        LET last == ds[Len(ds)]
            texts == [i \in 1..Len(ds) |-> MsgNavigatingTo(ds[i])]
        IN /\ state = "NAVIGATING"
           /\ status = "navigating"
           /\ checkpoint = last
           /\ lastInstruction = texts[Len(ds)]
           /\ lastUrgency = "normal"
           /\ isProcessing = FALSE
           /\ language = DEFAULT_LANGUAGE
           /\ recentInstructions = PushAll(<<>>, texts)
           /\ historySnippets = [i \in 1..Len(ds) |-> SeerSnippet(texts[i])]
           /\ rendered = [state |-> state, checkpoint |-> checkpoint, lastInstruction |-> lastInstruction,
                          lastUrgency |-> lastUrgency, isProcessing |-> isProcessing,
                          voiceLanguage |-> language, frameLanguage |-> language]
           /\ procs = EmptyBag
           /\ ev = [op |-> "init", arg |-> Null, haptics |-> <<>>, spoke |-> Null, midCycle |-> FALSE,
                     threw |-> FALSE, pushes |-> 0, lang |-> Null]
           /\ speaking = 0
           /\ order = <<>>

NextRecent ==
    \/ \E d \in RecentDestinations : setCheckpoint(d)
    \/ CallFrame
    \/ \E pr \in Running, r \in PlanResults : PlanResolved(pr, r)
    \/ \E pr \in Running : TTSSpoken(pr)

SpecRecent == InitRecent /\ [][NextRecent]_vars

\* What the synthesizer is given: destinations are set, the interval runs
\* guidance cycles, the user talks, utterances come to their end.
NextSpeech ==
    \/ \E d \in Destinations : setCheckpoint(d)
    \/ IntervalTick
    \/ PressOut
    \/ \E pr \in Running : ButtonVoice(pr)
    \/ \E pr \in Running, t \in LiveUtterances : VoiceTranscribed(pr, t)
    \/ \E pr \in Running : PictureTaken(pr)
    \/ \E pr \in Running, r \in PlanResults : PlanResolved(pr, r)
    \/ \E pr \in Running : TTSSpoken(pr)
    \/ SpeechDone

SpecSpeech == Init /\ [][NextSpeech]_vars

\* Arriving: a session that already set destinations goes on; the user
\* talks while the destination is set again, and says to be there or names
\* a place.
ArriveUtterances == {UtterImHere, UtterImHereApos, UtterDoor}

NextArrive ==
    \/ \E d \in RecentDestinations : setCheckpoint(d)
    \/ PressOut
    \/ \E pr \in Running : ButtonVoice(pr)
    \/ \E pr \in Running, t \in ArriveUtterances : VoiceTranscribed(pr, t)
    \/ \E pr \in Running : PictureLost(pr)
    \/ \E pr \in Running : TTSSpoken(pr)

SpecArrive == InitRecent /\ [][NextArrive]_vars

\* The application as App.tsx wires it: of the hook's operations it takes
\* handleVoiceInput and handleFrameCapture only, so setLanguage,
\* setCheckpoint and resetNavigation are never called; the user presses to
\* talk and says any transcript of Transcripts.  The guidance effect and the
\* frame capture of handleButtonPress need the rendered state NAVIGATING,
\* which no step below produces from Init, so their steps are not listed.
NextApp ==
    \/ PressOut
    \/ \E pr \in Running : RecordingLost(pr)
    \/ \E pr \in Running : ButtonVoice(pr)
    \/ \E pr \in Running, t \in Transcripts : VoiceTranscribed(pr, t)
    \/ \E pr \in Running : VoiceFailed(pr)
    \/ \E pr \in Running : TTSSpoken(pr)
    \/ \E pr \in Running : TTSFailed(pr)

SpecApp == Init /\ [][NextApp]_vars

\* The language screen shown again: the user can pick either language at any
\* time, sets a destination, resets, talks, and guidance cycles run.
LanguageChoices == {LANGUAGES[1], LANGUAGES[2]}

NextLanguage ==
    \/ \E l \in LanguageChoices : setLanguage(l)
    \/ \E d \in Destinations : setCheckpoint(d)
    \/ resetNavigation
    \/ CallVoice
    \/ CallFrame
    \/ \E pr \in Running, t \in LiveUtterances : VoiceTranscribed(pr, t)
    \/ \E pr \in Running, r \in PlanResults : PlanResolved(pr, r)
    \/ \E pr \in Running : TTSSpoken(pr)

SpecLanguage == Init /\ [][NextLanguage]_vars

\* Haptics: the planning service classifies the scene at each of the three
\* danger levels with either urgency; the instruction tells the level.
\* Destinations are set, guidance cycles run, speech may fail.
DangerInstructions ==
    [danger |-> <<"Stop.">>, caution |-> <<"Careful.">>, safe |-> <<"Walk forward.">>]

HapticPlans ==
    { [instruction |-> DangerInstructions[d], urgency |-> u, danger_level |-> d, reached |-> FALSE] :
        d \in DOMAIN DangerInstructions, u \in {"normal", "warning"} }

NextHaptics ==
    \/ \E d \in Destinations : setCheckpoint(d)
    \/ CallFrame
    \/ \E pr \in Running, r \in HapticPlans : PlanResolved(pr, r)
    \/ \E pr \in Running : TTSSpoken(pr)
    \/ \E pr \in Running : TTSFailed(pr)

SpecHaptics == Init /\ [][NextHaptics]_vars

\* Reset between two destinations: the user sets Door first; resetNavigation
\* may come at any time; in ASK_GOAL, where only a reset leads here, the
\* next destination is Lift.  Guidance cycles run meanwhile.
NextReset ==
    \/ state = "SELECT_LANGUAGE" /\ setCheckpoint(UtterDoor)
    \/ resetNavigation
    \/ state = "ASK_GOAL" /\ setCheckpoint(UtterLift)
    \/ CallFrame
    \/ \E pr \in Running, r \in PlanResults : PlanResolved(pr, r)
    \/ \E pr \in Running : PlanRejected(pr)
    \/ \E pr \in Running : TTSSpoken(pr)

SpecReset == Init /\ [][NextReset]_vars

TypeOK ==
    /\ state \in NavigationState
    /\ status \in StatusType
    /\ isProcessing \in BOOLEAN
    /\ lastUrgency \in {"normal", "warning"}
    /\ Len(historySnippets) <= MaxSnippets
    /\ Len(recentInstructions) <= MaxRecent
    /\ BagCardinality(procs) <= MaxProcs
    /\ speaking \in 0..MaxSnippets

----------------------------------------------------------------------------
(* Claims *)

\* C1: in every reachable state at most one guidance cycle is in flight; two
\* ticks that fire before the re-render make one call to postPlan, not two.
C1_OneGuidanceCycle == GuidanceCycles <= 1

\* C2: a voice-command cycle and a guidance cycle are never in flight at the
\* same time.
C2_VoiceGuidanceExclusive == ~(VoiceCycles >= 1 /\ GuidanceCycles >= 1)

\* C3: a "stop" utterance that arrived while a guidance cycle held the
\* processing flag is dropped: while a guidance cycle is in flight it changes
\* neither the state nor the checkpoint.
C3_StopMidCycleDropped ==
    [][(ev'.op = "stop" /\ ev'.midCycle /\ GuidanceCycles >= 1)
        => (state' = state /\ checkpoint' = checkpoint)]_vars

C5_FlagReleased == isProcessing ~> (~isProcessing /\ ~rendered.isProcessing)

C5_Witness == ev.op = "ttsFailed" /\ ~isProcessing /\ lastInstruction = MsgNetworkError

\* C6: a planning call is issued only while the state is NAVIGATING.
C6_PlanOnlyInNavigating == ev.op = "postPlan" => state = "NAVIGATING"

\* C7: a planning result is taken up only if the checkpoint it was asked for
\* is still the checkpoint when the call resolves.
C7_StaleResultDiscarded == ev.op = "planResolved" => ev.arg = checkpoint

\* C8: the checkpoint is non-null only in NAVIGATING and REACHED.
C8_CheckpointOnlyWhileGuiding == checkpoint # Null => state \in {"NAVIGATING", "REACHED"}

\* C9: every planning call carries a non-null checkpoint equal to the
\* current checkpoint at the moment it is issued.
C9_PlanCarriesCheckpoint == ev.op = "postPlan" => (ev.arg # Null /\ ev.arg = checkpoint)

\* C10: handleFrameCapture invoked with a null checkpoint issues no planning
\* call and ends with an observable error (a rejection or a spoken message).
C10_NullCheckpointRejected ==
    (ev.op \in {"frameSkipped", "postPlan"} /\ ev.arg = Null)
        => (ev.op = "frameSkipped" /\ (ev.threw \/ ev.spoke # Null))

C12_GoalStartsGuidance ==
    ev.op = "goal" => (state = "NAVIGATING" /\ checkpoint = ev.arg /\ IntervalActive)

\* the values of ev.op written by the step that handles a transcript
VoiceOps == {"goal", "stop", "repeat", "newCheckpoint", "imHere", "next", "none"}

C14_RepeatWithoutInstructionIsNoOp ==
    [][(/\ ev'.op = "repeat"
        /\ \A pr \in Running : pr.pc = "postAudio" => ~Truthy(pr.c.lastInstruction))
        => /\ ev'.spoke = Null
           /\ \A pr \in BagToSet(procs') : pr.pc = "playTTS" => CopiesIn(pr, procs') <= CopiesIn(pr, procs)
           /\ UNCHANGED <<state, checkpoint, lastInstruction, lastUrgency, recentInstructions>>
           /\ ~ev'.threw
           /\ ~isProcessing']_vars

C14_Witness ==
    /\ ev.op = "repeat"
    /\ lastInstruction = Null
    /\ state = "NAVIGATING"
    /\ ~isProcessing
    /\ \A pr \in Running : pr.pc # "playTTS"

\* C15: in NAVIGATING, "new checkpoint" followed by nothing or by blanks
\* leaves the checkpoint unchanged and starts no confirmation.
C15_EmptyNewCheckpointIsNoOp ==
    [][(ev'.op = "newCheckpoint" /\ ev'.arg \in {UtterNew, UtterNewBlank})
        => /\ checkpoint' = checkpoint
           /\ \A pr \in BagToSet(procs') : pr.pc = "playTTS" => CopiesIn(pr, procs') <= CopiesIn(pr, procs)]_vars

\* C16: recentInstructions holds at most MaxRecent texts, and they are the
\* last texts spoken, oldest first: the texts of the last snippets of
\* historySnippets in the same order, so a push onto a full list drops the
\* oldest; a planning call therefore carries at most MaxRecent of them.
C16_RecentCappedFIFO ==
    LET n == Len(historySnippets)
        k == Len(recentInstructions)
    IN /\ k = IF n <= MaxRecent THEN n ELSE MaxRecent
       /\ \A i \in 1..k : SeerSnippet(recentInstructions[i]) = historySnippets[n - k + i]

\* a planning call issued after a push evicted the oldest instruction
C16_Witness ==
    /\ ev.op = "postPlan"
    /\ Len(historySnippets) > MaxRecent
    /\ Len(recentInstructions) = MaxRecent
    /\ SeerSnippet(recentInstructions[1]) # historySnippets[1]

\* C17: a transcript taken as "stop" by a handleVoiceInput that was entered in
\* NAVIGATING with no guidance cycle in flight sets the state to ASK_GOAL and
\* the checkpoint to null and starts one playTTS("Navigation stopped."); and
\* once that was spoken, no planning call is issued while the checkpoint is
\* still null.
C17_StopEndsGuidance ==
    [][/\ (ev'.op = "stop" /\ ~ev'.midCycle)
          => /\ state' = "ASK_GOAL"
             /\ checkpoint' = Null
             /\ BagCardinality(procs') = BagCardinality(procs)
             /\ \E pr \in BagToSet(procs') :
                    /\ pr.pc = "playTTS" /\ pr.text = MsgStopped
                    /\ CopiesIn(pr, procs') = CopiesIn(pr, procs) + 1
       /\ (state = "ASK_GOAL" /\ checkpoint = Null /\ lastInstruction = MsgStopped /\ checkpoint' = Null)
          => ev'.op # "postPlan"]_vars

\* the rules of the NAVIGATING branch in their order, each with its keywords
CommandRules ==
    << [intent |-> "stop", keywords |-> {KwStop, KwCancel}],
       [intent |-> "repeat", keywords |-> {KwRepeat}],
       [intent |-> "newCheckpoint", keywords |-> {KwNewCheckpoint}],
       [intent |-> "imHere", keywords |-> {KwImHereApos, KwImHere}] >>

\* the first rule one of whose keywords occurs in the transcript, case ignored
FirstMatch(transcript) ==
    LET hits == {i \in 1..Len(CommandRules) :
                    \E k \in CommandRules[i].keywords : includes(toLowerCase(transcript), k)}
    IN IF hits = {} THEN "none"
       ELSE CommandRules[CHOOSE i \in hits : \A j \in hits : i <= j].intent

\* C18: a handleVoiceInput entered in NAVIGATING takes, for every transcript,
\* the branch of the first rule in the order stop/cancel, repeat, new
\* checkpoint, i'm here/im here whose keyword occurs in the transcript
\* whatever its case, and no branch when none occurs.
C18_FirstMatchingRuleWins ==
    [][\A pr \in Running :
          (/\ pr.pc = "postAudio" /\ pr.c.state = "NAVIGATING"
           /\ ev'.op \in VoiceOps
           /\ CopiesIn(pr, procs') = CopiesIn(pr, procs) - 1)
              => ev'.op = FirstMatch(ev'.arg)]_vars

\* "New Checkpoint bus stop" was taken as stop
C18_Witness ==
    /\ ev.op = "stop"
    /\ ev.arg = UtterNewBusStop
    /\ state = "ASK_GOAL"
    /\ checkpoint = Null

\* C19: the synthesizer never holds two utterances at once, one being
\* spoken and one waiting or both being spoken: every Speech.speak finds the
\* synthesizer stopped, whatever the interleaving of the playTTS calls.
C19_OneUtteranceAtATime == speaking <= 1

\* C20: when playTTS fails, nothing is thrown to the caller and nothing is
\* given to the synthesizer; lastInstruction and lastUrgency take the text and
\* urgency of the call, both histories stay as they were, and the cycle that
\* called playTTS runs to its end: its invocation is over, the processing
\* flag is false, and a guidance cycle whose result said reached still sets
\* the state to REACHED.
C20_SpeechFailureContained ==
    [][\A pr \in Running :
          (/\ pr.pc = "playTTS"
           /\ ev'.op = "ttsFailed"
           /\ CopiesIn(pr, procs') = CopiesIn(pr, procs) - 1)
              => /\ ~ev'.threw
                 /\ ev'.spoke = Null
                 /\ speaking' = speaking
                 /\ lastInstruction' = pr.text
                 /\ lastUrgency' = pr.urgency
                 /\ UNCHANGED <<refs, checkpoint, language>>
                 /\ \A q \in BagToSet(procs') : CopiesIn(q, procs') > CopiesIn(q, procs) => q.owner = "none"
                 /\ pr.owner \in {"voice", "frame"} => ~isProcessing'
                 /\ (pr.owner = "frame" /\ pr.reached) => state' = "REACHED"
                 /\ ~(pr.owner = "frame" /\ pr.reached) => state' = state]_vars

\* the instruction of a guidance cycle could not be spoken: it is shown, not
\* recorded, and the cycle ended in REACHED with the flag released
C20_Witness ==
    /\ ev.op = "ttsFailed"
    /\ ev.arg = <<"Door ahead.">>
    /\ lastInstruction = <<"Door ahead.">>
    /\ lastUrgency = "warning"
    /\ \A i \in 1..Len(recentInstructions) : recentInstructions[i] # <<"Door ahead.">>
    /\ state = "REACHED"
    /\ ~isProcessing
    /\ GuidanceCycles = 0

\* C21: when postAudio fails, whatever the state, handleVoiceInput does not
\* throw and changes neither state nor checkpoint; it starts one playTTS with
\* the network-error message and the urgency warning, and when that call
\* speaks, it speaks that message once with the warning haptic, still
\* without a change of state or checkpoint, and the cycle ends.
C21_TranscriptionFailureSpoken ==
    [][/\ \A pr \in Running :
            (/\ pr.pc = "postAudio"
             /\ ev'.op = "voiceFailed"
             /\ CopiesIn(pr, procs') = CopiesIn(pr, procs) - 1)
                => /\ ~ev'.threw
                   /\ state' = state /\ checkpoint' = checkpoint
                   /\ BagCardinality(procs') = BagCardinality(procs)
                   /\ \E q \in BagToSet(procs') :
                          /\ q.pc = "playTTS" /\ q.owner = "voice"
                          /\ q.text = MsgNetworkError /\ q.urgency = "warning"
                          /\ CopiesIn(q, procs') = CopiesIn(q, procs) + 1
       /\ \A pr \in Running :
            (/\ pr.pc = "playTTS" /\ pr.owner = "voice" /\ pr.text = MsgNetworkError
             /\ ev'.op = "spoken"
             /\ CopiesIn(pr, procs') = CopiesIn(pr, procs) - 1)
                => /\ ev'.spoke = MsgNetworkError
                   /\ ev'.haptics = <<"notification.Warning">>
                   /\ ~ev'.threw
                   /\ state' = state /\ checkpoint' = checkpoint
                   /\ ~isProcessing'
                   /\ \A q \in BagToSet(procs') : CopiesIn(q, procs') > CopiesIn(q, procs) => q.owner = "none"]_vars

\* the warning was spoken in REACHED, which the failure left as it was
C21_Witness ==
    /\ ev.op = "spoken"
    /\ ev.spoke = MsgNetworkError
    /\ lastUrgency = "warning"
    /\ state = "REACHED"
    /\ checkpoint # Null
    /\ ~isProcessing

\* C22: in the application as wired, once an utterance naming a destination
\* was transcribed, the state is NAVIGATING, the checkpoint is that
\* destination and the interval of the guidance effect is running.
C22_AppUtteranceStartsGuidance ==
    (ev.op \in VoiceOps /\ ev.arg \in Destinations)
        => (state = "NAVIGATING" /\ checkpoint = ev.arg /\ IntervalActive)

\* C23: utterances come in the order in which their cycles started: the
\* cycle that speaks is never one that a cycle started after it has already
\* spoken before.
C23_SpokenInStartOrder ==
    [][\A i \in 1..Len(order) :
          (/\ ev'.op = "spoken"
           /\ order[i].pr.pc = "playTTS"
           /\ order[i].pr.text = ev'.spoke
           /\ order' = Without(Overtake(order, i), i))
              => ~order[i].late]_vars

\* C24: every call is made in the active language: Speech.speak gets the
\* voice of the current language, postAudio and postPlan get its code.
C24_ActiveLanguageUsed ==
    /\ ev.op = "spoken" => ev.lang = language.ttsVoice
    /\ ev.op \in {"postAudio", "postPlan"} => ev.lang = language.whisperCode

\* C25: when a transcript is taken as "repeat" and an instruction has been
\* spoken before, the step starts a playTTS call with the text and urgency
\* of the instruction spoken last, and changes neither state nor checkpoint.
C25_RepeatSpeaksLastSpoken ==
    [][(ev'.op = "repeat" /\ recentInstructions # <<>>)
        => /\ \E q \in BagToSet(procs') :
                  /\ q.pc = "playTTS"
                  /\ q.text = recentInstructions[Len(recentInstructions)]
                  /\ q.urgency = lastUrgency
                  /\ CopiesIn(q, procs') = CopiesIn(q, procs) + 1
           /\ state' = state
           /\ checkpoint' = checkpoint]_vars

\* what follows the first occurrence of the phrase in the transcript, the
\* phrase being looked for whatever its case, without the blanks around it
RemainderAfter(transcript, phrase) ==
    LET at == indexOf(toLowerCase(transcript), phrase, 0)
    IN trim(SubSeq(transcript, at + Len(phrase) + 1, Len(transcript)))

C27_ImHereReachesCheckpoint ==
    [][(/\ ev'.op = "imHere"
        /\ ~ev'.midCycle
        /\ state = "NAVIGATING"
        /\ Len(order) = 1)
        => /\ state' = "REACHED"
           /\ ev'.haptics = <<"notification.Success">>
           /\ checkpoint' = checkpoint
           /\ checkpoint' # Null
           /\ \E q \in BagToSet(procs') :
                  /\ q.pc = "playTTS"
                  /\ q.text = MsgReached(checkpoint)
                  /\ CopiesIn(q, procs') = CopiesIn(q, procs) + 1]_vars

\* C28: a transcript with none of the keywords, handled by a handleVoiceInput
\* entered in NAVIGATING, changes neither the state nor the checkpoint nor
\* the last instruction and its urgency, starts no playTTS call and gives
\* nothing to the synthesizer; the cycle ends.
C28_PlainUtteranceIgnored ==
    [][\A pr \in Running :
          (/\ pr.pc = "postAudio" /\ pr.c.state = "NAVIGATING"
           /\ ev'.op \in VoiceOps
           /\ FirstMatch(ev'.arg) = "none"
           /\ CopiesIn(pr, procs') = CopiesIn(pr, procs) - 1)
              => /\ UNCHANGED <<state, checkpoint, lastInstruction, lastUrgency, recentInstructions>>
                 /\ ev'.spoke = Null
                 /\ speaking' = speaking
                 /\ \A q \in BagToSet(procs') : q.pc = "playTTS" => CopiesIn(q, procs') <= CopiesIn(q, procs)
                 /\ ~isProcessing']_vars

\* "Door" was said on the way to "lift" and the checkpoint is still "lift"
C28_Witness ==
    /\ ev.op = "none"
    /\ ev.arg = UtterDoor
    /\ state = "NAVIGATING"
    /\ checkpoint = <<"l", "i", "f", "t">>
    /\ ~isProcessing

\* a step of the cycle at position i of order: the invocation moved on or ended
StepOf(i) ==
    /\ CopiesIn(order[i].pr, procs') < CopiesIn(order[i].pr, procs)
    /\ \/ Len(order') = Len(order) /\ order'[i].pr # order[i].pr
       \/ Len(order') = Len(order) - 1 /\ \A j \in 1..Len(order') : order'[j].pr = Without(order, i)[j].pr

TransitionRows ==
    { <<"SELECT_LANGUAGE", {"setLanguage"}, "ASK_GOAL">>,
      <<"ASK_GOAL", {"goal", "setCheckpoint"}, "NAVIGATING">>,
      <<"ASK_NEXT", {"goal", "setCheckpoint"}, "NAVIGATING">>,
      <<"NAVIGATING", {"spoken", "ttsFailed", "imHere"}, "REACHED">>,
      <<"NAVIGATING", {"stop"}, "ASK_GOAL">>,
      <<"REACHED", {"next", "setCheckpoint"}, "NAVIGATING">> }

\* C30: every step that changes state takes a row of the transition table:
\* it goes from the row's state to the row's target and is one of the row's
\* steps.
C30_OnlyTableTransitions ==
    [][state' # state
        => \E row \in TransitionRows : row[1] = state /\ ev'.op \in row[2] /\ row[3] = state']_vars

\* C31: the controller starts in SELECT_LANGUAGE with a null checkpoint and
\* the processing flag false; setLanguage called in SELECT_LANGUAGE sets the
\* state to ASK_GOAL and the language to the one chosen, and does nothing
\* else: no playTTS call and no cycle is started, nothing is given to or
\* taken from the synthesizer, no haptic fires, and the checkpoint was and
\* stays null.
C31_LanguageChosenSilently ==
    /\ (state = "SELECT_LANGUAGE" /\ checkpoint = Null /\ ~isProcessing)
    /\ [][(ev'.op = "setLanguage" /\ state = "SELECT_LANGUAGE")
           => /\ state' = "ASK_GOAL"
              /\ checkpoint = Null /\ checkpoint' = Null
              /\ procs' = procs
              /\ Len(order') = Len(order)
              /\ ev'.spoke = Null /\ ev'.haptics = <<>>
              /\ speaking' = speaking
              /\ UNCHANGED <<status, lastInstruction, lastUrgency, isProcessing, refs>>]_vars

\* the language was chosen on the language screen and nothing else happened
C31_Witness ==
    /\ ev.op = "setLanguage"
    /\ state = "ASK_GOAL"
    /\ language = LANGUAGES[2]
    /\ checkpoint = Null
    /\ procs = EmptyBag
    /\ ev.pushes = 0
    /\ speaking = 0

\* C32: once the state has left SELECT_LANGUAGE, no step changes the
\* language: not a voice command, a guidance cycle, setCheckpoint or
\* resetNavigation, and not a further setLanguage.
C32_LanguageHeld ==
    [][state # "SELECT_LANGUAGE" => language' = language]_vars

\* the alert for each danger level: strong, medium, light
LevelAlert == [danger |-> "notification.Error", caution |-> "notification.Warning", safe |-> "impact.Light"]

\* C33: when the planning call of a guidance cycle succeeds, the step fires
\* the alert of the result's danger level and no other haptic: the error
\* notification for danger, the warning notification for caution, the light
\* impact for safe; and when the cycle ends, the haptics it fired begin with
\* that alert, so those of a cycle classified danger or caution are never
\* light impacts only, whatever the urgency and whether or not speech failed.
C33_HapticsByDangerLevel ==
    [][/\ \A pr \in Running, r \in HapticPlans :
            (/\ pr.pc = "postPlan"
             /\ ev'.op = "planResolved"
             /\ procs' = Replace(pr, Proc("playTTS", pr.via, "frame", pr.c, r.instruction,
                                          r.urgency, r.reached, FALSE)))
                => ev'.haptics = <<LevelAlert[r.danger_level]>>
       /\ \A i \in 1..Len(order), d \in DOMAIN DangerInstructions :
            (/\ StepOf(i)
             /\ Len(order') = Len(order) - 1
             /\ order[i].pr.owner = "frame"
             /\ order[i].pr.pc = "playTTS"
             /\ order[i].pr.text = DangerInstructions[d])
                => LET fired == order[i].haptics \o ev'.haptics
                   IN /\ fired # <<>>
                      /\ fired[1] = LevelAlert[d]
                      /\ d \in {"danger", "caution"}
                            => \E k \in 1..Len(fired) : fired[k] # "impact.Light"]_vars

\* a cycle classified danger with urgency normal has ended: its instruction
\* was spoken with the light impact of playTTS after the error notification
C33_Witness ==
    /\ ev.op = "spoken"
    /\ ev.spoke = DangerInstructions["danger"]
    /\ ev.haptics = <<"impact.Light">>
    /\ lastUrgency = "normal"
    /\ GuidanceCycles = 0
    /\ ~isProcessing

\* C34: resetNavigation, whatever the state, leaves the state ASK_GOAL, the
\* checkpoint and the last instruction null and both history buffers empty;
\* and a planning call issued after a reset carries nothing from before it:
\* a call for Lift, which is only set after a reset, finds the announcement
\* of Door, which was only set before it, in neither buffer.
C34_ResetDiscardsHistory ==
    /\ [][ev'.op = "resetNavigation"
           => /\ state' = "ASK_GOAL"
              /\ checkpoint' = Null
              /\ lastInstruction' = Null
              /\ recentInstructions' = <<>>
              /\ historySnippets' = <<>>]_vars
    /\ [](ev.op = "postPlan" /\ ev.arg = UtterLift
           => /\ \A i \in 1..Len(recentInstructions) : recentInstructions[i] # MsgNavigatingTo(UtterDoor)
              /\ \A i \in 1..Len(historySnippets) : historySnippets[i] # SeerSnippet(MsgNavigatingTo(UtterDoor)))

\* C35: while a handleVoiceInput or a handleFrameCapture invocation is
\* between its setIsProcessing(true) and its finally block, isProcessing is
\* true: the end of one cycle never clears the flag under another.
C35_FlagHeldWhileInFlight ==
    (VoiceCycles + GuidanceCycles >= 1) => isProcessing

\* C36: in every reachable state, REACHED comes with a checkpoint: the
\* checkpoint is not null while the state is REACHED, also after a guidance
\* cycle that ends with reached once a stop command or resetNavigation has
\* cleared the checkpoint.
C36_ReachedHasCheckpoint ==
    state = "REACHED" => checkpoint # Null

\* C37: whenever no handleVoiceInput or handleFrameCapture invocation is in
\* flight, the status shown agrees with the state: it is navigating exactly
\* when the state is NAVIGATING and reached exactly when the state is
\* REACHED, in particular once a voice command that changed the state ended.
C37_StatusAgreesWithState ==
    (VoiceCycles + GuidanceCycles = 0)
        => /\ status = "navigating" <=> state = "NAVIGATING"
           /\ status = "reached" <=> state = "REACHED"

\* C38: in every reachable state, NAVIGATING comes with a checkpoint that is
\* a non-empty string, so that the interval of the guidance effect runs and
\* handleFrameCapture passes its guard; no empty transcript and no empty
\* remainder of "new checkpoint" gives NAVIGATING with an empty checkpoint.
C38_NavigatingHasCheckpoint ==
    state = "NAVIGATING" => Truthy(checkpoint)

\* the states that a setState call of the hook is given, and the first one
SetStates == {"SELECT_LANGUAGE", "ASK_GOAL", "NAVIGATING", "REACHED"}

KeptByFailedCycle ==
    <<state, status, checkpoint, lastInstruction, lastUrgency, language, recentInstructions, historySnippets>>

====
